---- MODULE Spec2Model ----
(***************************************************************************)
(* A model of the headline-video generator.                                *)
(*                                                                         *)
(*   webapp/app/page.tsx              the Home component: handleGenerate,  *)
(*                                    ensureFfmpeg, cleanupFfmpegFiles,    *)
(*                                    createFrame, wrapHeadlineText        *)
(*   webapp/app/api/headlines/route.ts  the GET handler of /api/headlines  *)
(*                                                                         *)
(* handleGenerate is an async function: every `await` is a point where     *)
(* other callbacks (another handleGenerate, an encoder progress event, a   *)
(* React commit, the unmount of the view) may run.  Each action below is   *)
(* the code between two such points.                                       *)
(***************************************************************************)
EXTENDS Integers, Sequences, FiniteSets, TLC

\* ------------------------------------------------------------------ bounds
\* Number of times the generate button is clicked in one session.
MaxRuns == 2
\* Longest headline list a response of /api/headlines carries in the
\* component model.
MaxHeadlines == 2

\* Most items of a feed array, longest text and widest budget given to
\* wrapHeadlineText, largest maxLines.
MaxFeedItems == 7
MaxTextLen == 5
MaxWidth == 4
MaxLinesArg == 2

\* items.slice(0, 6) in route.ts
FeedCap == 6

Runs == 1..MaxRuns

NULL == "null"

VARIABLES
    \* React state of Home (useState)
    status, error, videoUrl, isGenerating, progress, headlines,
    \* refs of Home (useRef)
    ffmpegRef, videoUrlRef, progressHandlerRef,
    \* the committed view: the button's `disabled` attribute, whether a
    \* click has scheduled a render that is not committed yet, and whether
    \* the component is still mounted
    viewDisabled, renderPending, mounted,
    \* the encoder: instance.loaded, its listener list, its scratch files
    loaded, listening, files,
    \* object URLs created by URL.createObjectURL and not yet revoked
    liveUrls,
    \* the invocations of handleGenerate, one per click
    run,
    \* one call of GET (route.ts) and one call of wrapHeadlineText
    feedCall, wrapCall

viewVars == <<status, error, videoUrl, isGenerating, progress, headlines>>
refVars == <<ffmpegRef, videoUrlRef, progressHandlerRef>>
encVars == <<loaded, listening, files>>
fnVars == <<feedCall, wrapCall>>
vars == <<status, error, videoUrl, isGenerating, progress, headlines,
          ffmpegRef, videoUrlRef, progressHandlerRef, viewDisabled,
          renderPending, mounted, loaded, listening, files, liveUrls, run, feedCall, wrapCall>>

\* ------------------------------------------------------------ small helpers
Min(a, b) == IF a < b THEN a ELSE b
Max(a, b) == IF a > b THEN a ELSE b

Digit(d) == <<"0", "1", "2", "3", "4", "5", "6", "7", "8", "9">>[d + 1]

\* Number.prototype.toString() of a non-negative integer
RECURSIVE NumberToString(_)
NumberToString(n) ==
    IF n < 10 THEN Digit(n) ELSE NumberToString(n \div 10) \o Digit(n % 10)

\* String.prototype.padStart(len, "0")
RECURSIVE PadStart(_, _)
PadStart(s, len) == IF Len(s) >= len THEN s ELSE PadStart("0" \o s, len)

\* ---------------------------------------------------------------- headlines
FeedTitles == <<"C", "A", "D", "B", "G", "E", "F", "H">>

Headline(i) == [title |-> FeedTitles[((i - 1) % Len(FeedTitles)) + 1]]

HeadlineList(k) == [i \in 1..k |-> Headline(i)]

\* payload.headlines of a 200 response: missing or not an array, or a list
Payloads(cap) ==
    {[isArray |-> FALSE, items |-> <<>>]}
        \cup {[isArray |-> TRUE, items |-> HeadlineList(k)] : k \in 0..cap}

\* Array.isArray(payload.headlines) ? payload.headlines : []
Fetched(payloadHeadlines) ==
    IF payloadHeadlines.isArray THEN payloadHeadlines.items ELSE <<>>

\* --------------------------------------------------------------- createFrame
\* `frame${index.toString().padStart(3, "0")}.png`
FrameName(index) == "frame" \o PadStart(NumberToString(index), 3) \o ".png"

\* The frame drawn from one headline: its name and the PNG of the canvas,
\* which shows the title and the "index + 1 / total" caption.
createFrame(headline, index, total) ==
    [name |-> FrameName(index),
     data |-> [title |-> headline.title, page |-> index + 1, total |-> total]]

PromiseAllByCompletion(results, doneOrder) ==
    [k \in 1..Len(doneOrder) |-> results[doneOrder[k]]]

\* Promise.all(fetched.map(createFrame)), once every promise has settled:
\* the values in the order of the promises, whatever the order they settled
\* in.  results maps the index of a promise to its value, doneOrder lists
\* the indices in settling order.
PromiseAll(results, doneOrder) ==
    [k \in 1..Len(doneOrder) |-> results[k]]

\* -------------------------------------------------------------------- errors
\* Messages (the Hindi texts of the source are named here in ASCII).
MsgNoHeadlines == "no-headlines-available-today"
MsgFetchFailed == "Headlines fetch failed"
MsgFallback == "something-went-wrong-please-retry"

\* What a phase can throw: an Error with a message, or a value that is no
\* Error (a rejected promise may carry anything).
Thrown(phase) ==
    CASE phase = "fetch"  -> {[isError |-> TRUE, message |-> "Failed to fetch"]}
      [] phase = "notok"  -> {[isError |-> TRUE, message |-> MsgFetchFailed],
                              [isError |-> TRUE, message |-> "Failed to fetch headlines"]}
      [] phase = "empty"  -> {[isError |-> TRUE, message |-> MsgNoHeadlines]}
      [] phase = "render" -> {[isError |-> TRUE, message |-> "Canvas rendering context unavailable"]}
      [] OTHER            -> {[isError |-> TRUE, message |-> "encoder:" \o phase],
                              [isError |-> FALSE, message |-> NULL]}

\* err instanceof Error ? err.message : fallback
ErrorMessage(err) == IF err.isError THEN err.message ELSE MsgFallback

FinallyLeak(flag) == flag

\* finally { setIsGenerating(false) }
Finally(flag) == FALSE

\* ------------------------------------------------------------------ encoder
OutputName == "output.mp4"

\* The regular files and the directories ffmpeg.listDir("/") reports.
ListDir(fs) ==
    {[name |-> n, isDir |-> FALSE] : n \in DOMAIN fs}
        \cup {[name |-> "tmp", isDir |-> TRUE], [name |-> "frames", isDir |-> TRUE]}

\* String.prototype.startsWith
StartsWith(s, prefix) ==
    Len(s) >= Len(prefix) /\ SubSeq(s, 1, Len(prefix)) = prefix

CleanupFilterFramesOnly(entry) == ~entry.isDir /\ StartsWith(entry.name, "frame")

\* !entry.isDir && (entry.name.startsWith("frame") || entry.name === "output.mp4")
CleanupFilter(entry) ==
    ~entry.isDir /\ (StartsWith(entry.name, "frame") \/ entry.name = OutputName)

Remove(fs, names) == [n \in (DOMAIN fs) \ names |-> fs[n]]

Put(fs, name, content) == [n \in (DOMAIN fs) \cup {name} |-> IF n = name THEN content ELSE fs[n]]

\* -i frame%03d.png -start_number 0: the frames 0, 1, 2, ... up to the first
\* missing one.
InputFrames(fs) ==
    {i \in 0..Cardinality(DOMAIN fs) : \A j \in 0..i : FrameName(j) \in DOMAIN fs}

\* Math.min(100, Math.round(raw * 100)), raw given in thousandths
Percent(rawMilli) == Min(100, (rawMilli + 5) \div 10)

\* The progress events of the encoder: { progress?: number }, the number in
\* thousandths.  No number, 0.104 and 1.3.
RawProgress ==
    {[isNumber |-> FALSE, milli |-> 0], [isNumber |-> TRUE, milli |-> 104],
     [isNumber |-> TRUE, milli |-> 1300]}

\* URL.createObjectURL: a locator unique to the call that creates it
ObjectUrl(r) == "blob:" \o NumberToString(r)

\* ------------------------------------------------------- one handleGenerate
\* pc: idle (not clicked yet), fetch, load, list, delete, render, write,
\* exec, read, finished.  The other fields are the locals of the call
\* (fetched, frames, entries), the results of the createFrame promises and
\* the order they settled in, and a record of what the call did: the frames
\* it wrote, whether its createFrame promises settled out of index order,
\* the phases that failed, how it ended and the state it set in its last
\* step, the runs that had ended in "done" when it started, whether another
\* call changed the status to rendering/done or used the encoder while this
\* one awaited its headlines, and the runs whose frames its encoder exec
\* read.
NoEnd == [status |-> NULL, error |-> NULL, isGenerating |-> FALSE]

InitRun ==
    [pc |-> "idle", fetched |-> <<>>, results |-> <<>>, doneOrder |-> <<>>,
     frames |-> <<>>, written |-> <<>>, reordered |-> FALSE, entries |-> {},
     failures |-> {}, outcome |-> "none", end |-> NoEnd, prior |-> {},
     interfered |-> FALSE, execRead |-> {}]

InFlight(r) == run[r].pc \notin {"idle", "finished"}

\* The calls that await their headlines while the call r sets the status to
\* rendering or done, or loads, writes to or executes the encoder.
Seen(rn, r) ==
    [q \in Runs |-> IF q # r /\ rn[q].pc = "fetch"
                    THEN [rn[q] EXCEPT !.interfered = TRUE] ELSE rn[q]]

\* Home after its first render.
InitHome ==
    /\ status = "idle" /\ error = NULL /\ videoUrl = NULL
    /\ isGenerating = FALSE /\ progress = 0 /\ headlines = <<>>
    /\ ffmpegRef = NULL /\ videoUrlRef = NULL /\ progressHandlerRef = NULL
    /\ viewDisabled = FALSE /\ renderPending = FALSE /\ mounted = TRUE
    /\ loaded = FALSE /\ listening = FALSE /\ files = <<>>
    /\ liveUrls = {}
    /\ run = [r \in Runs |-> InitRun]

Init == InitHome /\ feedCall = NULL /\ wrapCall = NULL

\* The render a click schedules is committed before any later task runs:
\* only another click dispatched back to back can come before it.  The
\* continuation of an await, an encoder event and the unmount are later
\* tasks.
LaterTask == ~renderPending /\ UNCHANGED renderPending

\* The button is clicked: onClick={handleGenerate}, possible while the
\* committed view does not carry disabled.  The code up to the first await;
\* the state it sets is rendered once the click event has returned.
Click(r) ==
    /\ mounted /\ ~viewDisabled
    /\ run[r].pc = "idle" /\ \A q \in Runs : q < r => run[q].pc # "idle"
    /\ error' = NULL
    /\ videoUrl' = NULL
    /\ liveUrls' = liveUrls \ {videoUrlRef}
    /\ videoUrlRef' = NULL
    /\ progress' = 5
    /\ status' = "fetching"
    /\ isGenerating' = TRUE
    /\ renderPending' = TRUE
    /\ run' = [run EXCEPT ![r] =
                 [@ EXCEPT !.pc = "fetch",
                           !.prior = {q \in Runs : run[q].outcome = "done"}]]
    /\ UNCHANGED <<headlines, ffmpegRef, progressHandlerRef, viewDisabled,
                   mounted, encVars, fnVars>>

\* catch (err) { setError(...); setStatus("error") } finally { ... }
Catch(r, phase, err) ==
    /\ error' = ErrorMessage(err)
    /\ status' = "error"
    /\ isGenerating' = Finally(isGenerating)
    /\ run' = [run EXCEPT ![r] =
                 [@ EXCEPT !.pc = "finished", !.outcome = "error",
                           !.end = [status |-> "error",
                                    error |-> ErrorMessage(err),
                                    isGenerating |-> Finally(isGenerating)],
                           !.failures = @ \cup {phase},
                           !.results = <<>>, !.doneOrder = <<>>,
                           !.entries = {}]]

\* fetch rejects, or the response is not ok, or its body cannot be read.
FetchFail(r, phase, err) ==
    /\ LaterTask
    /\ run[r].pc = "fetch"
    /\ Catch(r, phase, err)
    /\ UNCHANGED <<videoUrl, progress, headlines, refVars, viewDisabled,
                   mounted, encVars, liveUrls, fnVars>>

\* The response is ok and carries no headline.
FetchEmpty(r, payloadHeadlines) ==
    /\ LaterTask
    /\ run[r].pc = "fetch"
    /\ Len(Fetched(payloadHeadlines)) = 0
    /\ \E err \in Thrown("empty") : Catch(r, "empty", err)
    /\ UNCHANGED <<videoUrl, progress, headlines, refVars, viewDisabled,
                   mounted, encVars, liveUrls, fnVars>>

\* The response is ok and carries headlines: the code up to the await in
\* ensureFfmpeg (load) or, with the encoder loaded, in cleanupFfmpegFiles
\* (listDir).
FetchOk(r, payloadHeadlines) ==
    /\ LaterTask
    /\ run[r].pc = "fetch"
    /\ Len(Fetched(payloadHeadlines)) > 0
    /\ headlines' = Fetched(payloadHeadlines)
    /\ status' = "rendering"
    /\ progress' = 15
    /\ IF ffmpegRef = NULL
       THEN /\ ffmpegRef' = "instance"
            /\ progressHandlerRef' = "handler"
            /\ listening' = TRUE
       ELSE UNCHANGED <<ffmpegRef, progressHandlerRef, listening>>
    /\ run' = [Seen(run, r) EXCEPT ![r] =
                 [@ EXCEPT !.pc = IF loaded THEN "list" ELSE "load",
                           !.fetched = Fetched(payloadHeadlines),
                           !.interfered = FALSE]]
    /\ UNCHANGED <<error, videoUrl, isGenerating, videoUrlRef, viewDisabled,
                   mounted, loaded, files, liveUrls, fnVars>>

\* await ffmpegRef.current.load() resolves.
LoadDone(r) ==
    /\ LaterTask
    /\ run[r].pc = "load"
    /\ loaded' = TRUE
    /\ run' = [Seen(run, r) EXCEPT ![r].pc = "list"]
    /\ UNCHANGED <<viewVars, refVars, viewDisabled, mounted, listening, files,
                   liveUrls, fnVars>>

LoadFail(r, err) ==
    /\ LaterTask
    /\ run[r].pc = "load"
    /\ Catch(r, "load", err)
    /\ UNCHANGED <<videoUrl, progress, headlines, refVars, viewDisabled,
                   mounted, encVars, liveUrls, fnVars>>

\* await ffmpeg.listDir("/") resolves: the entries to delete.  With none,
\* Promise.all([]) resolves and the frames are drawn next.
ListDirDone(r) ==
    /\ LaterTask
    /\ run[r].pc = "list"
    /\ LET names == {e.name : e \in {x \in ListDir(files) : CleanupFilter(x)}}
       IN run' = [run EXCEPT ![r] =
                    [@ EXCEPT !.pc = IF names = {} THEN "render" ELSE "delete",
                              !.entries = names]]
    /\ UNCHANGED <<viewVars, refVars, viewDisabled, mounted, encVars, liveUrls,
                   fnVars>>

\* listDir rejects: the catch of cleanupFfmpegFiles swallows it.
ListDirFail(r) ==
    /\ LaterTask
    /\ run[r].pc = "list"
    /\ run' = [run EXCEPT ![r] =
                 [@ EXCEPT !.pc = "render", !.failures = @ \cup {"cleanup"}]]
    /\ UNCHANGED <<viewVars, refVars, viewDisabled, mounted, encVars, liveUrls,
                   fnVars>>

\* The deleteFile calls settle; those in failing reject (as does the delete
\* of a file that is no longer there) and the inner catch swallows that.
DeleteFiles(r, failing) ==
    /\ LaterTask
    /\ run[r].pc = "delete"
    /\ failing \subseteq run[r].entries
    /\ files' = Remove(files, run[r].entries \ failing)
    /\ run' = [run EXCEPT ![r] =
                 [@ EXCEPT !.pc = "render", !.entries = {},
                           !.failures =
                               IF failing = {} /\ run[r].entries \subseteq DOMAIN files
                               THEN @ ELSE @ \cup {"cleanup"}]]
    /\ UNCHANGED <<viewVars, refVars, viewDisabled, mounted, loaded, listening,
                   liveUrls, fnVars>>

\* One createFrame promise settles.  When it is the last one, Promise.all
\* resolves and the call goes on to its first writeFile.
FrameDone(r, i) ==
    /\ LaterTask
    /\ run[r].pc = "render"
    /\ i \in 1..Len(run[r].fetched)
    /\ i \notin DOMAIN run[r].results
    /\ LET total == Len(run[r].fetched)
           results == Put(run[r].results, i,
                          createFrame(run[r].fetched[i], i - 1, total))
           doneOrder == Append(run[r].doneOrder, i)
       IN IF Len(doneOrder) = total
          THEN /\ progress' = 40
               /\ run' = [run EXCEPT ![r] =
                            [@ EXCEPT !.pc = "write",
                                      !.frames = PromiseAll(results, doneOrder),
                                      !.reordered =
                                          doneOrder # [k \in 1..total |-> k],
                                      !.results = <<>>, !.doneOrder = <<>>]]
          ELSE /\ progress' = progress
               /\ run' = [run EXCEPT ![r] =
                            [@ EXCEPT !.results = results,
                                      !.doneOrder = doneOrder]]
    /\ UNCHANGED <<status, error, videoUrl, isGenerating, headlines, refVars,
                   viewDisabled, mounted, encVars, liveUrls, fnVars>>

\* A createFrame promise rejects (no 2d context, fetchFile fails).
RenderFail(r, err) ==
    /\ LaterTask
    /\ run[r].pc = "render"
    /\ Catch(r, "render", err)
    /\ UNCHANGED <<videoUrl, progress, headlines, refVars, viewDisabled,
                   mounted, encVars, liveUrls, fnVars>>

\* await ffmpeg.writeFile(frame.name, frame.data) resolves.
WriteFile(r) ==
    /\ LaterTask
    /\ run[r].pc = "write"
    /\ LET frame == run[r].frames[Len(run[r].written) + 1]
           last == Len(run[r].written) + 1 = Len(run[r].frames)
       IN /\ files' = Put(files, frame.name, [owner |-> r, data |-> frame.data])
          /\ progress' = IF last THEN 55 ELSE progress
          /\ run' = [Seen(run, r) EXCEPT ![r] =
                       [@ EXCEPT !.pc = IF last THEN "exec" ELSE "write",
                                 !.written = Append(@, frame)]]
    /\ UNCHANGED <<status, error, videoUrl, isGenerating, headlines, refVars,
                   viewDisabled, mounted, loaded, listening, liveUrls, fnVars>>

WriteFail(r, err) ==
    /\ LaterTask
    /\ run[r].pc = "write"
    /\ Catch(r, "write", err)
    /\ UNCHANGED <<videoUrl, progress, headlines, refVars, viewDisabled,
                   mounted, encVars, liveUrls, fnVars>>

\* The handler of ensureFfmpeg, called by the encoder while an exec runs.
ProgressEvent(raw) ==
    /\ LaterTask
    /\ listening
    /\ \E r \in Runs : run[r].pc = "exec"
    /\ progress' = IF raw.isNumber THEN Percent(raw.milli) ELSE progress
    /\ UNCHANGED <<status, error, videoUrl, isGenerating, headlines, refVars,
                   viewDisabled, mounted, encVars, liveUrls, run, fnVars>>

\* await ffmpeg.exec([...]) resolves: the encoder has read the numbered
\* frames it found and, if there was a first one, written output.mp4.
ExecDone(r) ==
    /\ LaterTask
    /\ run[r].pc = "exec"
    /\ LET input == InputFrames(files)
           read == {files[FrameName(i)] : i \in input}
       IN /\ files' = IF input = {} THEN files
                      ELSE Put(files, OutputName,
                               [owner |-> r, data |-> {f.data : f \in read}])
          /\ run' = [Seen(run, r) EXCEPT ![r] =
                       [@ EXCEPT !.pc = "read",
                                 !.execRead = {f.owner : f \in read}]]
    /\ progress' = 85
    /\ UNCHANGED <<status, error, videoUrl, isGenerating, headlines, refVars,
                   viewDisabled, mounted, loaded, listening, liveUrls, fnVars>>

ExecFail(r, err) ==
    /\ LaterTask
    /\ run[r].pc = "exec"
    /\ Catch(r, "exec", err)
    /\ UNCHANGED <<videoUrl, progress, headlines, refVars, viewDisabled,
                   mounted, encVars, liveUrls, fnVars>>

\* await ffmpeg.readFile("output.mp4") resolves: the rest of the try block
\* and the finally block.
ReadDone(r) ==
    /\ LaterTask
    /\ run[r].pc = "read"
    /\ OutputName \in DOMAIN files
    /\ liveUrls' = liveUrls \cup {ObjectUrl(r)}
    /\ videoUrlRef' = ObjectUrl(r)
    /\ videoUrl' = ObjectUrl(r)
    /\ progress' = 100
    /\ status' = "done"
    /\ isGenerating' = Finally(isGenerating)
    /\ run' = [Seen(run, r) EXCEPT ![r] =
                 [@ EXCEPT !.pc = "finished", !.outcome = "done",
                           !.end = [status |-> "done", error |-> error,
                                    isGenerating |-> Finally(isGenerating)]]]
    /\ UNCHANGED <<error, headlines, ffmpegRef, progressHandlerRef,
                   viewDisabled, mounted, encVars, fnVars>>

ReadFail(r, err) ==
    /\ LaterTask
    /\ run[r].pc = "read"
    /\ Catch(r, "read", err)
    /\ UNCHANGED <<videoUrl, progress, headlines, refVars, viewDisabled,
                   mounted, encVars, liveUrls, fnVars>>

\* React commits the render of the current state: disabled={isGenerating}.
Render ==
    /\ mounted
    /\ viewDisabled # isGenerating \/ renderPending
    /\ viewDisabled' = isGenerating
    /\ renderPending' = FALSE
    /\ UNCHANGED <<viewVars, refVars, mounted, encVars, liveUrls, run, fnVars>>

\* The view is torn down: the cleanup of the useEffect.
Teardown ==
    /\ LaterTask
    /\ mounted
    /\ mounted' = FALSE
    /\ liveUrls' = liveUrls \ {videoUrlRef}
    /\ listening' = IF ffmpegRef # NULL /\ progressHandlerRef # NULL
                    THEN FALSE ELSE listening
    /\ UNCHANGED <<viewVars, refVars, viewDisabled, loaded, files, run, fnVars>>

\* The continuations of the awaits of the call r, with headline lists of up
\* to cap entries, but for the deletions of its cleanup.
AwaitStep(r, cap) ==
    \/ \E phase \in {"fetch", "notok"} : \E err \in Thrown(phase) :
           FetchFail(r, phase, err)
    \/ \E p \in Payloads(cap) : FetchEmpty(r, p)
    \/ \E p \in Payloads(cap) : FetchOk(r, p)
    \/ LoadDone(r)
    \/ \E err \in Thrown("load") : LoadFail(r, err)
    \/ ListDirDone(r)
    \/ ListDirFail(r)
    \/ \E i \in 1..cap : FrameDone(r, i)
    \/ \E err \in Thrown("render") : RenderFail(r, err)
    \/ WriteFile(r)
    \/ \E err \in Thrown("write") : WriteFail(r, err)
    \/ ExecDone(r)
    \/ \E err \in Thrown("exec") : ExecFail(r, err)
    \/ ReadDone(r)
    \/ \E err \in Thrown("read") : ReadFail(r, err)

Next ==
    \/ \E r \in Runs : Click(r)
    \/ Render
    \/ \E r \in Runs : AwaitStep(r, MaxHeadlines)
    \/ \E r \in Runs : \E failing \in SUBSET run[r].entries :
           DeleteFiles(r, failing)
    \/ \E raw \in RawProgress : ProgressEvent(raw)
    \/ Teardown

Spec == Init /\ [][Next]_vars

\* A session with a single click and a response of up to FeedCap headlines,
\* the most /api/headlines returns.  The scratch area is empty when the
\* cleanup of the first call lists it, so that call deletes nothing.
NextOneRun ==
    \/ Click(1)
    \/ Render
    \/ AwaitStep(1, FeedCap)
    \/ \E raw \in RawProgress : ProgressEvent(raw)
    \/ Teardown

SpecOneRun == Init /\ [][NextOneRun]_vars

\* ========================================================= the properties
Finished(r) == run[r].pc = "finished"

\* C1: at most one generation run is in progress at any time; a request
\* issued while a run has not finished starts no second, overlapping run.
AtMostOneRunInFlight == Cardinality({r \in Runs : InFlight(r)}) <= 1

\* C2: a run whose response carries no headline ends with status error and
\* the "no headlines available today" message, and from its start to its
\* end the status is never rendering or done and the encoder is not loaded,
\* written to or executed.
EmptyRunNeverRendersOrEncodes ==
    \A r \in Runs :
        "empty" \in run[r].failures =>
            /\ Finished(r)
            /\ run[r].end.status = "error"
            /\ run[r].end.error = MsgNoHeadlines
            /\ ~run[r].interfered

\* C3 as stated: a failure in any phase, the cleanup included, makes the run
\* end with status error, an error message and the in-progress flag false;
\* every run that ends leaves the flag false.
EveryPhaseFailureEndsInError ==
    \A r \in Runs :
        Finished(r) =>
            /\ ~run[r].end.isGenerating
            /\ run[r].failures # {} =>
                   run[r].end.status = "error" /\ run[r].end.error # NULL

\* C3, amended: a failure in any phase but the cleanup ends the run at once
\* with status error, an error message and the in-progress flag false; a
\* failure of the cleanup (listing, deletion) is swallowed; every run that
\* ends leaves the flag false.
FatalPhaseFailureEndsInError ==
    \A r \in Runs :
        /\ Finished(r) => ~run[r].end.isGenerating
        /\ run[r].failures \ {"cleanup"} # {} =>
               /\ Finished(r)
               /\ run[r].end.status = "error"
               /\ run[r].end.error # NULL
               /\ ~run[r].end.isGenerating

\* A run failed in its encoder exec and ended in the error state.
ExecFailureWitness ==
    \E r \in Runs :
        /\ "exec" \in run[r].failures
        /\ Finished(r)
        /\ status = "error" /\ error # NULL /\ ~isGenerating

\* C4: the video locator shown is non-null exactly when the status is done.
LocatorExactlyWhenDone == (videoUrl # NULL) <=> (status = "done")

\* C5: from the first checkpoint of a run to its end the progress value
\* never decreases, whatever the encoder's progress events.  Stated for the
\* steps during which exactly one run is in flight and no new run starts.
ProgressNeverDecreasesInRun ==
    [][(/\ Cardinality({r \in Runs : InFlight(r)}) = 1
        /\ \A r \in Runs : InFlight(r)' => InFlight(r))
           => progress' >= progress]_vars

\* The files in the scratch area that the run r1 wrote.
WrittenBy(r1) ==
    {n \in DOMAIN files : files[n].owner = r1}

\* The run is past its cleanup and has not written its first frame.
Staging(r) ==
    \/ run[r].pc = "render"
    \/ run[r].pc = "write" /\ run[r].written = <<>>

ExpectedFrames(fetched) ==
    [i \in 1..Len(fetched) |->
        [name |-> "frame00" \o Digit(i - 1) \o ".png",
         data |-> [title |-> fetched[i].title, page |-> i,
                   total |-> Len(fetched)]]]

\* C7: for a list of n <= 6 headlines and any settling order of the
\* createFrame calls, the frames staged are frame000.png .. frame00(n-1).png,
\* frame i drawn from the i-th headline, written in increasing index order.
FramesStagedInFeedOrder ==
    \A r \in Runs :
        LET expected == ExpectedFrames(run[r].fetched)
        IN /\ Len(run[r].written) <= Len(expected)
           /\ run[r].written = SubSeq(expected, 1, Len(run[r].written))
           /\ (run[r].pc \in {"exec", "read"} \/ run[r].outcome = "done")
                  => run[r].written = expected

\* Six frames are staged after their promises settled out of index order.
ReorderedFramesWitness ==
    \E r \in Runs :
        /\ run[r].pc = "exec"
        /\ Len(run[r].written) = FeedCap
        /\ run[r].reordered

\* C10: at most one created and not yet revoked locator exists, and none
\* once the view is torn down, also when a run is in flight at teardown and
\* completes later.
LocatorsReleased ==
    /\ Cardinality(liveUrls) <= 1
    /\ ~mounted => liveUrls = {}

\* ================================================== route.ts: GET handler
\* An optional string field of an RssItem.
Undefined == [defined |-> FALSE, value |-> ""]
Str(s) == [defined |-> TRUE, value |-> s]

CharAt(s, i) == SubSeq(s, i, i)

\* The position of the first ">" of s at or after i, or 0.
RECURSIVE NextClose(_, _)
NextClose(s, i) ==
    IF i > Len(s) THEN 0
    ELSE IF CharAt(s, i) = ">" THEN i ELSE NextClose(s, i + 1)

\* value.replace(/<[^>]+>/g, " "), from position i on
RECURSIVE StripTags(_, _)
StripTags(s, i) ==
    IF i > Len(s) THEN ""
    ELSE LET close == NextClose(s, i + 1)
         IN IF CharAt(s, i) = "<" /\ close >= i + 2
            THEN " " \o StripTags(s, close + 1)
            ELSE CharAt(s, i) \o StripTags(s, i + 1)

\* value.replace(/\s+/g, " "), from position i on
RECURSIVE CollapseSpaces(_, _)
CollapseSpaces(s, i) ==
    IF i > Len(s) THEN ""
    ELSE IF CharAt(s, i) = " " /\ i > 1 /\ CharAt(s, i - 1) = " "
         THEN CollapseSpaces(s, i + 1)
         ELSE CharAt(s, i) \o CollapseSpaces(s, i + 1)

\* String.prototype.trim of a string whose whitespace is single spaces
Trim(s) ==
    LET from == IF Len(s) > 0 /\ CharAt(s, 1) = " " THEN 2 ELSE 1
        to == IF Len(s) > 0 /\ CharAt(s, Len(s)) = " " THEN Len(s) - 1 ELSE Len(s)
    IN IF from > to THEN "" ELSE SubSeq(s, from, to)

sanitizeText(v) ==
    IF ~v.defined \/ v.value = "" THEN ""
    ELSE Trim(CollapseSpaces(StripTags(v.value, 1), 1))

UnknownTitle == "unknown-title"

\* the callback of items.slice(0, 6).map
NormalizeItem(item) ==
    [title |-> IF sanitizeText(item.title) = "" THEN UnknownTitle
               ELSE sanitizeText(item.title),
     link |-> IF item.link.defined THEN item.link.value ELSE "",
     publishedAt |-> IF item.pubDate.defined THEN item.pubDate.value ELSE "",
     description |-> sanitizeText(item.description)]

CoerceItemsArrayOnly(channel) ==
    IF channel.itemKind = "array" THEN channel.items ELSE <<>>

\* Array.isArray(channel?.item) ? channel.item
\*     : channel?.item ? [channel.item] : []
\* channel.itemKind says what channel.item is: absent (also when there is no
\* channel), one object, or an array; channel.items holds the object or the
\* array's entries.
CoerceItems(channel) ==
    CASE channel.itemKind = "array"  -> channel.items
      [] channel.itemKind = "object" -> <<channel.items[1]>>
      [] OTHER                       -> <<>>

\* Array.prototype.slice(0, end)
SliceFromStart(items, end) == SubSeq(items, 1, Min(end, Len(items)))

NoResponse == [status |-> 0, error |-> "", headlines |-> <<>>]

\* GET: upstream.kind is what the fetch of the feed did (throws, notok, ok).
GET(upstream) ==
    CASE upstream.kind = "throws" ->
             [status |-> 500, headlines |-> <<>>,
              error |-> "Unexpected error while fetching headlines"]
      [] upstream.kind = "notok" ->
             [status |-> 502, headlines |-> <<>>,
              error |-> "Failed to fetch headlines"]
      [] OTHER ->
             LET items == CoerceItems(upstream.channel)
                 first == SliceFromStart(items, FeedCap)
             IN [status |-> 200, error |-> "",
                 headlines |-> [i \in 1..Len(first) |-> NormalizeItem(first[i])]]

\* The feed items the calls are tried on.
ItemPool ==
    {[title |-> Str("<b>Alpha</b>  one "), link |-> Str("http://a"),
      pubDate |-> Str("Mon, 02 Nov"), description |-> Str("<p>x</p> y")],
     [title |-> Undefined, link |-> Undefined, pubDate |-> Undefined,
      description |-> Undefined],
     [title |-> Str("<br>"), link |-> Str(""), pubDate |-> Str("never"),
      description |-> Str(" d <> e ")]}

RECURSIVE ItemLists(_)
ItemLists(n) ==
    IF n = 0 THEN {<<>>}
    ELSE LET shorter == ItemLists(n - 1)
         IN shorter \cup {Append(l, it) : l \in {x \in shorter : Len(x) = n - 1},
                                         it \in ItemPool}

Upstreams ==
    {[kind |-> k, channel |-> [itemKind |-> "absent", items |-> <<>>]] :
        k \in {"throws", "notok", "ok"}}
    \cup {[kind |-> "ok", channel |-> [itemKind |-> "object", items |-> <<it>>]] :
            it \in ItemPool}
    \cup {[kind |-> "ok", channel |-> [itemKind |-> "array", items |-> l]] :
            l \in ItemLists(MaxFeedItems)}

InitFeed ==
    /\ InitHome
    /\ feedCall \in {[upstream |-> u, response |-> NoResponse] : u \in Upstreams}
    /\ wrapCall = NULL

\* One request to /api/headlines is served.
ServeHeadlines ==
    /\ feedCall.response = NoResponse
    /\ feedCall' = [feedCall EXCEPT !.response = GET(feedCall.upstream)]
    /\ UNCHANGED <<viewVars, refVars, viewDisabled, renderPending, mounted,
                   encVars, liveUrls, run, wrapCall>>

SpecFeed == InitFeed /\ [][ServeHeadlines]_vars

\* C8: for a feed fetched successfully GET answers 200 with the headlines of
\* the first min(k, 6) items in feed order, where a single non-list item
\* counts as k = 1 and a channel without item as k = 0.
FeedNormalizedAndTruncated ==
    (feedCall.response # NoResponse /\ feedCall.upstream.kind = "ok") =>
        LET channel == feedCall.upstream.channel
            k == CASE channel.itemKind = "absent" -> 0
                   [] channel.itemKind = "object" -> 1
                   [] OTHER -> Len(channel.items)
            out == feedCall.response
        IN /\ out.status = 200
           /\ Len(out.headlines) = (IF k < 6 THEN k ELSE 6)
           /\ \A i \in 1..Len(out.headlines) :
                  out.headlines[i] = NormalizeItem(channel.items[i])

\* GET has answered with one headline for a channel whose item is one
\* object, not a list.
SingleItemWitness ==
    /\ feedCall.response # NoResponse
    /\ feedCall.upstream.kind = "ok"
    /\ feedCall.upstream.channel.itemKind = "object"
    /\ Len(feedCall.response.headlines) = 1

\* ============================================ page.tsx: wrapHeadlineText
\* The ellipsis character of the source, U+2026, written "~" here.
Ellipsis == "~"

\* ctx.measureText(s).width: the sum of the advance widths of the
\* characters of s, in units of the width of a space.
CharWidth(c) ==
    CASE c = "W" -> 2
      [] c = Ellipsis -> 2
      [] OTHER -> 1

RECURSIVE MeasureText(_)
MeasureText(s) ==
    IF Len(s) = 0 THEN 0
    ELSE CharWidth(CharAt(s, 1))
             + MeasureText(IF Len(s) = 1 THEN "" ELSE SubSeq(s, 2, Len(s)))

\* text.replace(/\s+/g, " ").trim()
Normalize(text) == Trim(CollapseSpaces(text, 1))

\* normalized.split(" "), from position i on, word being the characters
\* read since the last space
RECURSIVE SplitOnSpace(_, _, _)
SplitOnSpace(s, i, word) ==
    IF i > Len(s) THEN <<word>>
    ELSE IF CharAt(s, i) = " "
         THEN <<word>> \o SplitOnSpace(s, i + 1, "")
         ELSE SplitOnSpace(s, i + 1, word \o CharAt(s, i))

\* metrics.width > maxWidth && line
Overflows(testLine, line, maxWidth) ==
    MeasureText(testLine) > maxWidth /\ line # ""

\* The for loop over the words, from word i on, and the push of the last
\* line after it.
RECURSIVE GreedyLines(_, _, _, _, _)
GreedyLines(words, i, lines, line, maxWidth) ==
    IF i > Len(words)
    THEN IF line # "" THEN Append(lines, line) ELSE lines
    ELSE LET word == words[i]
             testLine == IF line # "" THEN line \o " " \o word ELSE word
         IN IF Overflows(testLine, line, maxWidth)
            THEN GreedyLines(words, i + 1, Append(lines, line), word, maxWidth)
            ELSE GreedyLines(words, i + 1, lines, testLine, maxWidth)

TruncateNothing(lastLine, maxWidth) == lastLine

\* while (measureText(`${lastLine}...`).width > maxWidth && lastLine.length)
\*     lastLine = lastLine.slice(0, -1)
RECURSIVE TruncateToFit(_, _)
TruncateToFit(lastLine, maxWidth) ==
    IF MeasureText(lastLine \o Ellipsis) > maxWidth /\ Len(lastLine) > 0
    THEN TruncateToFit(IF Len(lastLine) = 1 THEN ""
                       ELSE SubSeq(lastLine, 1, Len(lastLine) - 1), maxWidth)
    ELSE lastLine

\* The lines wrapHeadlineText draws with ctx.fillText and the y it returns.
wrapHeadlineText(text, x, y, maxWidth, lineHeight, maxLines) ==
    LET normalized == Normalize(text)
        lines == GreedyLines(SplitOnSpace(normalized, 1, ""), 1, <<>>, "", maxWidth)
        limit == Max(1, maxLines)
        boundedLines == SliceFromStart(lines, limit)
        finalLines ==
            IF Len(lines) > limit
            THEN [boundedLines EXCEPT ![Len(boundedLines)] =
                      TruncateToFit(@, maxWidth) \o Ellipsis]
            ELSE boundedLines
    IN IF normalized = "" THEN [drawn |-> <<>>, y |-> y]
       ELSE [drawn |-> [k \in 1..Len(finalLines) |->
                           [text |-> finalLines[k], x |-> x,
                            y |-> y + (k - 1) * lineHeight]],
             y |-> y + Len(finalLines) * lineHeight]

RECURSIVE Texts(_)
Texts(n) ==
    IF n = 0 THEN {""}
    ELSE LET shorter == Texts(n - 1)
         IN shorter \cup {t \o c : t \in {u \in shorter : Len(u) = n - 1},
                                   c \in {" ", "a", "W"}}

NotDrawn == [drawn |-> <<>>, y |-> -1]

\* One call as createFrame makes it for the title: x = 80, y = 220,
\* lineHeight = 58; the text, the width budget and maxLines vary.
InitWrap ==
    /\ InitHome
    /\ feedCall = NULL
    /\ wrapCall \in {[text |-> t, maxWidth |-> w, maxLines |-> m, out |-> NotDrawn] :
                        t \in Texts(MaxTextLen), w \in 0..MaxWidth,
                        m \in 0..MaxLinesArg}

DrawHeadline ==
    /\ wrapCall.out = NotDrawn
    /\ wrapCall' = [wrapCall EXCEPT !.out =
                       wrapHeadlineText(wrapCall.text, 80, 220, wrapCall.maxWidth,
                                        58, wrapCall.maxLines)]
    /\ UNCHANGED <<viewVars, refVars, viewDisabled, renderPending, mounted,
                   encVars, liveUrls, run, feedCall>>

SpecWrap == InitWrap /\ [][DrawHeadline]_vars

\* The greedy wrap of the normalized input of the call, by the rule of the
\* spec: a word goes on a new line when the line with it is wider than the
\* budget and the line is not empty.
WrappedInput ==
    GreedyLines(SplitOnSpace(Normalize(wrapCall.text), 1, ""), 1, <<>>, "",
                wrapCall.maxWidth)

EndsWithEllipsis(s) == Len(s) > 0 /\ CharAt(s, Len(s)) = Ellipsis

DrawnTexts == [k \in 1..Len(wrapCall.out.drawn) |-> wrapCall.out.drawn[k].text]

\* No leading, trailing or doubled space.
IsCollapsed(s) ==
    /\ Len(s) > 0 => CharAt(s, 1) # " " /\ CharAt(s, Len(s)) # " "
    /\ \A i \in 1..(Len(s) - 1) : ~(CharAt(s, i) = " " /\ CharAt(s, i + 1) = " ")

TruncatesWhenOver ==
    Len(WrappedInput) > wrapCall.maxLines =>
        /\ Len(DrawnTexts) = wrapCall.maxLines
        /\ EndsWithEllipsis(DrawnTexts[Len(DrawnTexts)])
        /\ MeasureText(DrawnTexts[Len(DrawnTexts)]) <= wrapCall.maxWidth

OneLineWhenFits ==
    (/\ Normalize(wrapCall.text) # ""
     /\ MeasureText(Normalize(wrapCall.text)) <= wrapCall.maxWidth) =>
        /\ DrawnTexts = <<Normalize(wrapCall.text)>>
        /\ IsCollapsed(DrawnTexts[1])
        /\ ~EndsWithEllipsis(DrawnTexts[1])

\* C9 as stated: for any budget, word widths and maxLines >= 1, an input
\* that wraps to more than maxLines lines is drawn as maxLines lines, the
\* last ending in an ellipsis and no wider than the budget; an input (with
\* at least one word) that fits in one line is drawn as that one line,
\* without ellipsis.
WrapTruncatesAndFits ==
    (wrapCall.out # NotDrawn /\ wrapCall.maxLines >= 1) =>
        TruncatesWhenOver /\ OneLineWhenFits

\* C9, amended: the last line is no wider than the budget provided the
\* ellipsis alone is no wider than the budget; with a narrower budget the
\* maxLines lines are still drawn and the last still ends in the ellipsis.
\* An input with at least one word that fits is drawn as one line; of an
\* input that is empty once trimmed nothing is drawn.
WrapTruncatesAndFitsIfEllipsisDoes ==
    (wrapCall.out # NotDrawn /\ wrapCall.maxLines >= 1) =>
        /\ MeasureText(Ellipsis) <= wrapCall.maxWidth => TruncatesWhenOver
        /\ Len(WrappedInput) > wrapCall.maxLines =>
               /\ Len(DrawnTexts) = wrapCall.maxLines
               /\ EndsWithEllipsis(DrawnTexts[Len(DrawnTexts)])
        /\ OneLineWhenFits
        /\ Normalize(wrapCall.text) = "" => DrawnTexts = <<>>

\* An input that wraps to exactly maxLines + 1 lines has been drawn, and
\* characters of its last line were cut to make room for the ellipsis.
TruncatedLineWitness ==
    /\ wrapCall.out # NotDrawn
    /\ wrapCall.maxLines >= 1
    /\ MeasureText(Ellipsis) <= wrapCall.maxWidth
    /\ Len(WrappedInput) = wrapCall.maxLines + 1
    /\ Len(DrawnTexts) = wrapCall.maxLines
    /\ Len(DrawnTexts[Len(DrawnTexts)]) <= Len(WrappedInput[wrapCall.maxLines])

====
